---- MODULE Spec2Model ----
(***************************************************************************)
(* Materialization stores of the Confidence OpenFeature provider (JS):     *)
(*   - InMemoryMaterializationRepo            (src/unnamed/part_002)       *)
(*   - FileBackedMaterializationRepo, the one that wraps the in-memory     *)
(*     repo and writes the file on close                                   *)
(*     (src/openfeature-provider/js/examples/FileBackedMaterializationRepo.ts) *)
(*   - FileBackedMaterializationRepo, the one that reads and rewrites the  *)
(*     whole file on every call            (src/unnamed/part_000)          *)
(* A JS Map and a plain JS object are both modelled as a TLA+ function     *)
(* whose DOMAIN is the set of keys present.                                *)
(***************************************************************************)
EXTENDS Naturals, FiniteSets, Sequences, TLC

VARIABLES
    adapter,      \* which repository class the client has constructed
    pc,           \* the client's position: "constructed", "running", "closed"
    storage,      \* InMemoryMaterializationRepo.storage : unit -> (id -> info)
    loadCount,    \* .loadCount
    storeCount,   \* .storeCount
    cacheHits,    \* .cacheHits
    cacheMisses,  \* .cacheMisses
    file,         \* the file at filePath: [state, text]
    call,         \* the client's last call: its name, arguments and return value
    atClose,      \* history: memoryRepo.storage at the last FileBacked close()
    req,          \* the resolution requests in flight: request -> its position and locals
    strategy,     \* the stickyResolveStrategy object handed to the type guards / the provider
    guards,       \* type guard name -> the boolean it returned for strategy
    remote,       \* a RemoteResolverFallback: its baseUrl, the resolve() in progress, its
                  \* outcome, the fetch calls it made, how the resolve() before it settled
    coord,        \* the resolution coordinator: active strategy, request in progress, calls made
    heap,         \* the JS objects of an InMemory repository and its caller, by reference
    reference     \* an InMemoryMaterializationRepo run side by side with the wrapping one

repoVars == <<adapter, pc, storage, loadCount, storeCount, cacheHits, cacheMisses, file, call, atClose, req>>

strategyVars == <<strategy, guards, remote, coord>>

vars == <<adapter, pc, storage, loadCount, storeCount, cacheHits, cacheMisses, file, call, atClose, req,
          strategy, guards, remote, coord, heap, reference>>

counters == <<loadCount, storeCount, cacheHits, cacheMisses>>

----------------------------------------------------------------------------
(* Bounds of the model and the inputs the client draws from. *)

MaxLoads == 1
MaxStores == 2

Units == {"", "u1", "u2"}
Mats == {"m1", "m2"}
Rules == {"r1", "r2"}
Variants == {"a", "b"}

EmptyMap == [k \in {} |-> k]

InfoA == [unitInInfo |-> TRUE, ruleToVariant |-> [r \in {"r1"} |-> "a"]]
InfoB == [unitInInfo |-> TRUE, ruleToVariant |-> [r \in {"r2"} |-> "b"]]
Infos == {InfoA, InfoB}

\* the values a client stores under a materialization id
InfosFor(id) == IF id = "m1" THEN {InfoA, InfoB} ELSE {InfoB}

\* the Map<string, MaterializationInfo> arguments of storeAssignment
Assignments ==
    UNION {{f \in [D -> Infos] : \A id \in D : f[id] \in InfosFor(id)} : D \in SUBSET Mats}

----------------------------------------------------------------------------
(* Map primitives *)

\* Map.set(key, value) on a copy of map
MapSet(map, key, value) ==
    [k \in DOMAIN map \cup {key} |-> IF k = key THEN value ELSE map[k]]

\* new Map(existing); for (const [key, value] of assignments) newEntry.set(key, value)
MapSetAll(existing, assignments) ==
    [k \in DOMAIN existing \cup DOMAIN assignments |->
        IF k \in DOMAIN assignments THEN assignments[k] ELSE existing[k]]

----------------------------------------------------------------------------
(* InMemoryMaterializationRepo *)

emptyInfo == [unitInInfo |-> FALSE, ruleToVariant |-> EmptyMap]

\* mutant: the miss path returns new Map() with no entry
createEmptyMap_noEntry(key) == EmptyMap

createEmptyMap(key) == [k \in {key} |-> emptyInfo]

\* the branch of loadMaterializedAssignmentsForUnit that counts a cache hit
Mem_isHit(st, unit, materialization) ==
    /\ unit \in DOMAIN st
    /\ materialization \in DOMAIN st[unit]

\* the Map that loadMaterializedAssignmentsForUnit returns
Mem_loadMaterializedAssignmentsForUnit(st, unit, materialization) ==
    IF unit \in DOMAIN st
    THEN IF materialization \in DOMAIN st[unit]
         THEN [k \in {materialization} |-> st[unit][materialization]]
         ELSE createEmptyMap(materialization)
    ELSE createEmptyMap(materialization)

\* mutant: the existing entry of the unit is not copied before the set
Mem_storeAssignment_replaceUnit(st, unit, assignments) ==
    IF unit = "" THEN st ELSE MapSet(st, unit, assignments)

\* mutant: the guard on an empty unit is missing
Mem_storeAssignment_noGuard(st, unit, assignments) ==
    IF unit \notin DOMAIN st
    THEN MapSet(st, unit, assignments)
    ELSE MapSet(st, unit, MapSetAll(st[unit], assignments))

\* mutant: an id already stored for the unit keeps its record
Mem_storeAssignment_keepExisting(st, unit, assignments) ==
    IF unit = "" THEN st
    ELSE IF unit \notin DOMAIN st THEN MapSet(st, unit, assignments)
    ELSE MapSet(st, unit, MapSetAll(assignments, st[unit]))

\* mutant: an id already stored for the unit is deleted instead of set
Mem_storeAssignment_deleteStored(st, unit, assignments) ==
    IF unit = "" THEN st
    ELSE IF unit \notin DOMAIN st THEN MapSet(st, unit, assignments)
    ELSE MapSet(st, unit,
                [id \in (DOMAIN st[unit] \cup DOMAIN assignments)
                            \ (DOMAIN st[unit] \cap DOMAIN assignments) |->
                    IF id \in DOMAIN assignments THEN assignments[id] ELSE st[unit][id]])

\* storage after storeAssignment(unit, assignments)
Mem_storeAssignment(st, unit, assignments) ==
    IF unit = ""
    THEN st
    ELSE IF unit \notin DOMAIN st
         THEN MapSet(st, unit, assignments)
         ELSE MapSet(st, unit, MapSetAll(st[unit], assignments))

\* storage after close(): this.storage.clear()
Mem_close(st) == EmptyMap

exportData(st) ==
    [unit \in DOMAIN st |-> [key \in DOMAIN st[unit] |-> st[unit][key]]]

----------------------------------------------------------------------------
(* JSON text of the persisted layout.  A JSON object is modelled by the set *)
(* of its members <<key, value>>.                                           *)

Members(obj) == {<<k, obj[k]>> : k \in DOMAIN obj}

ObjectOf(members) ==
    [k \in {p[1] : p \in members} |-> (CHOOSE p \in members : p[1] = k)[2]]

JSON_stringify(allData) ==
    {<<unit,
       {<<key, [unitInInfo |-> allData[unit][key].unitInInfo,
                ruleToVariant |-> Members(allData[unit][key].ruleToVariant)]>>
          : key \in DOMAIN allData[unit]}>>
       : unit \in DOMAIN allData}

JSON_parse(text) ==
    LET units == ObjectOf(text)
    IN  [unit \in DOMAIN units |->
            LET mats == ObjectOf(units[unit])
            IN  [key \in DOMAIN mats |->
                    [unitInInfo |-> mats[key].unitInInfo,
                     ruleToVariant |-> ObjectOf(mats[key].ruleToVariant)]]]

NoFile == [state |-> "missing", text |-> {}]
BadFile == [state |-> "invalid", text |-> {}]
JsonFile(text) == [state |-> "json", text |-> text]

----------------------------------------------------------------------------
(* FileBackedMaterializationRepo wrapping the in-memory repo *)

\* the loop of initialize: one memoryRepo.storeAssignment per unit of the file
RECURSIVE Wrap_loadAll(_, _, _)
Wrap_loadAll(st, allData, units) ==
    IF units = {}
    THEN st
    ELSE LET unit == CHOOSE u \in units : TRUE
         IN  Wrap_loadAll(Mem_storeAssignment(st, unit, allData[unit]),
                          allData, units \ {unit})

\* mutant: initialize() that does not load the file
Wrap_initialize_ignoreFile(st, f) == st

\* storage after initialize(); a missing or invalid file is caught
Wrap_initialize(st, f) ==
    IF f.state = "json"
    THEN LET allData == JSON_parse(f.text)
         IN  Wrap_loadAll(st, allData, DOMAIN allData)
    ELSE st

\* what the try block of initialize() throws: fs.readFile on a missing or
\* unreadable file, JSON.parse on text that is not JSON
Wrap_tryThrows(f) ==
    IF f.state = "missing" THEN "ENOENT"
    ELSE IF f.state = "invalid" THEN "SyntaxError"
    ELSE "none"

\* mutant: initialize() without its catch
Wrap_initializeThrows_noCatch(f) == Wrap_tryThrows(f)

\* what initialize() throws: catch {} swallows whatever the try block threw
Wrap_initializeThrows(f) == IF Wrap_tryThrows(f) = "none" THEN "none" ELSE "none"

\* number of memoryRepo.storeAssignment calls initialize makes
Wrap_initializeStores(f) ==
    IF f.state = "json" THEN Cardinality(DOMAIN JSON_parse(f.text)) ELSE 0

\* mutant: memoryRepo.close() runs before exportData()
Wrap_closeFile_clearFirst(st) == JsonFile(JSON_stringify(exportData(Mem_close(st))))

\* the file that close() writes
Wrap_closeFile(st) == JsonFile(JSON_stringify(exportData(st)))

----------------------------------------------------------------------------
(* FileBackedMaterializationRepo that reads and writes the file per call *)

Disk_readAllData(f) ==
    IF f.state = "json" THEN JSON_parse(f.text) ELSE EmptyMap

Disk_writeAllData(data) == JsonFile(JSON_stringify(data))

Disk_isHit(f, unit, materialization) ==
    LET allData == Disk_readAllData(f)
    IN  /\ unit \in DOMAIN allData
        /\ materialization \in DOMAIN allData[unit]

Disk_loadMaterializedAssignmentsForUnit(f, unit, materialization) ==
    LET allData == Disk_readAllData(f)
    IN  IF unit \in DOMAIN allData /\ materialization \in DOMAIN allData[unit]
        THEN [k \in {materialization} |-> allData[unit][materialization]]
        ELSE createEmptyMap(materialization)

\* the file after storeAssignment(unit, assignments)
Disk_storeAssignment(f, unit, assignments) ==
    IF unit = ""
    THEN f
    ELSE LET allData == Disk_readAllData(f)
             unitData == IF unit \in DOMAIN allData THEN allData[unit] ELSE EmptyMap
         IN  Disk_writeAllData(MapSet(allData, unit, MapSetAll(unitData, assignments)))

\* the file after initialize(): created as '{}' when fs.access fails
Disk_initialize(f) ==
    IF f.state = "missing" THEN JsonFile({}) ELSE f

----------------------------------------------------------------------------
(* The client: constructs a repository, initializes it (file repos), then *)
(* calls load, store and close, each call awaited before the next.        *)

Adapters == {"InMemory", "FileBacked", "FileDirect"}

\* a call without arguments or return value
Call(op) ==
    [op |-> op, unit |-> "", materialization |-> "", assignments |-> EmptyMap,
     ret |-> EmptyMap]

LoadCall(unit, materialization, ret) ==
    [op |-> "load", unit |-> unit, materialization |-> materialization,
     assignments |-> EmptyMap, ret |-> ret]

StoreCall(unit, assignments) ==
    [op |-> "store", unit |-> unit, materialization |-> "",
     assignments |-> assignments, ret |-> EmptyMap]

Init ==
    /\ adapter \in Adapters
    /\ pc = IF adapter = "InMemory" THEN "running" ELSE "constructed"
    /\ storage = EmptyMap
    /\ loadCount = 0
    /\ storeCount = 0
    /\ cacheHits = 0
    /\ cacheMisses = 0
    /\ file \in IF adapter = "InMemory" THEN {NoFile} ELSE {NoFile, BadFile}
    /\ call = Call("new")
    /\ atClose = EmptyMap
    /\ req = EmptyMap
    /\ strategy = EmptyMap /\ guards = EmptyMap /\ remote = EmptyMap /\ coord = EmptyMap
    /\ heap = EmptyMap
    /\ reference = EmptyMap

\* new InMemoryMaterializationRepo() / new FileBackedMaterializationRepo(path)
\* on the file a previous instance left behind
Construct ==
    /\ pc \in {"running", "closed"}
    /\ pc' = IF adapter = "InMemory" THEN "running" ELSE "constructed"
    /\ storage' = EmptyMap
    /\ loadCount' = 0
    /\ storeCount' = 0
    /\ cacheHits' = 0
    /\ cacheMisses' = 0
    /\ call' = Call("new")
    /\ UNCHANGED <<adapter, file, atClose, req>>
    /\ UNCHANGED strategyVars
    /\ UNCHANGED <<heap, reference>>

Initialize ==
    /\ pc = "constructed"
    /\ pc' = IF adapter = "FileBacked" /\ Wrap_initializeThrows(file) # "none"
             THEN "failed"
             ELSE "running"
    /\ \/ /\ adapter = "FileBacked"
          /\ storage' = Wrap_initialize(storage, file)
          /\ storeCount' = storeCount + Wrap_initializeStores(file)
          /\ UNCHANGED <<file>>
       \/ /\ adapter = "FileDirect"
          /\ file' = Disk_initialize(file)
          /\ UNCHANGED <<storage, storeCount>>
    /\ call' = Call("initialize")
    /\ UNCHANGED <<adapter, loadCount, cacheHits, cacheMisses, atClose, req>>
    /\ UNCHANGED strategyVars
    /\ UNCHANGED <<heap, reference>>

\* mutant: a miss keeps the default record it returns
Load_storesDefault(unit, materialization) ==
    /\ pc \in {"running", "closed"}
    /\ loadCount < MaxLoads
    /\ loadCount' = loadCount + 1
    /\ LET hit == IF adapter = "FileDirect"
                  THEN Disk_isHit(file, unit, materialization)
                  ELSE Mem_isHit(storage, unit, materialization)
       IN  /\ IF hit
              THEN cacheHits' = cacheHits + 1 /\ UNCHANGED cacheMisses
              ELSE cacheMisses' = cacheMisses + 1 /\ UNCHANGED cacheHits
           /\ IF hit \/ unit = ""
              THEN UNCHANGED <<storage, file>>
              ELSE IF adapter = "FileDirect"
                   THEN /\ file' = Disk_storeAssignment(file, unit,
                                                        createEmptyMap(materialization))
                        /\ UNCHANGED storage
                   ELSE /\ storage' = Mem_storeAssignment(storage, unit,
                                                          createEmptyMap(materialization))
                        /\ UNCHANGED file
    /\ call' = LoadCall(unit, materialization,
                IF adapter = "FileDirect"
                THEN Disk_loadMaterializedAssignmentsForUnit(file, unit, materialization)
                ELSE Mem_loadMaterializedAssignmentsForUnit(storage, unit, materialization))
    /\ UNCHANGED <<adapter, pc, storeCount, atClose, req>>
    /\ UNCHANGED strategyVars
    /\ UNCHANGED <<heap, reference>>

\* mutant: a miss is not counted
Load_missNotCounted(unit, materialization) ==
    /\ pc \in {"running", "closed"}
    /\ loadCount < MaxLoads
    /\ loadCount' = loadCount + 1
    /\ LET hit == IF adapter = "FileDirect"
                  THEN Disk_isHit(file, unit, materialization)
                  ELSE Mem_isHit(storage, unit, materialization)
       IN  IF hit
           THEN cacheHits' = cacheHits + 1 /\ UNCHANGED cacheMisses
           ELSE UNCHANGED <<cacheHits, cacheMisses>>
    /\ call' = LoadCall(unit, materialization,
                IF adapter = "FileDirect"
                THEN Disk_loadMaterializedAssignmentsForUnit(file, unit, materialization)
                ELSE Mem_loadMaterializedAssignmentsForUnit(storage, unit, materialization))
    /\ UNCHANGED <<adapter, pc, storage, storeCount, file, atClose, req>>
    /\ UNCHANGED strategyVars
    /\ UNCHANGED <<heap, reference>>

Load(unit, materialization) ==
    /\ pc \in {"running", "closed"}
    /\ loadCount < MaxLoads
    /\ loadCount' = loadCount + 1
    /\ LET hit == IF adapter = "FileDirect"
                  THEN Disk_isHit(file, unit, materialization)
                  ELSE Mem_isHit(storage, unit, materialization)
       IN  IF hit
           THEN cacheHits' = cacheHits + 1 /\ UNCHANGED cacheMisses
           ELSE cacheMisses' = cacheMisses + 1 /\ UNCHANGED cacheHits
    /\ call' = LoadCall(unit, materialization,
                IF adapter = "FileDirect"
                THEN Disk_loadMaterializedAssignmentsForUnit(file, unit, materialization)
                ELSE Mem_loadMaterializedAssignmentsForUnit(storage, unit, materialization))
    /\ UNCHANGED <<adapter, pc, storage, storeCount, file, atClose, req>>
    /\ UNCHANGED strategyVars
    /\ UNCHANGED <<heap, reference>>

\* mutant: the wrapping repository rewrites the file on every storeAssignment
Store_writeThrough(unit, assignments) ==
    /\ pc \in {"running", "closed"}
    /\ storeCount < MaxStores
    /\ storeCount' = storeCount + 1
    /\ IF adapter = "FileDirect"
       THEN /\ file' = Disk_storeAssignment(file, unit, assignments)
            /\ UNCHANGED storage
       ELSE /\ storage' = Mem_storeAssignment(storage, unit, assignments)
            /\ file' = IF adapter = "FileBacked"
                       THEN Wrap_closeFile(Mem_storeAssignment(storage, unit, assignments))
                       ELSE file
    /\ call' = StoreCall(unit, assignments)
    /\ UNCHANGED <<adapter, pc, loadCount, cacheHits, cacheMisses, atClose, req>>
    /\ UNCHANGED strategyVars
    /\ UNCHANGED <<heap, reference>>

Store(unit, assignments) ==
    /\ pc \in {"running", "closed"}
    /\ storeCount < MaxStores
    /\ storeCount' = storeCount + 1
    /\ IF adapter = "FileDirect"
       THEN /\ file' = Disk_storeAssignment(file, unit, assignments)
            /\ UNCHANGED storage
       ELSE /\ storage' = Mem_storeAssignment(storage, unit, assignments)
            /\ UNCHANGED file
    /\ call' = StoreCall(unit, assignments)
    /\ UNCHANGED <<adapter, pc, loadCount, cacheHits, cacheMisses, atClose, req>>
    /\ UNCHANGED strategyVars
    /\ UNCHANGED <<heap, reference>>

Close ==
    /\ pc \in {"running", "closed"}
    /\ pc' = "closed"
    /\ \/ /\ adapter = "InMemory"
          /\ storage' = Mem_close(storage)
          /\ UNCHANGED <<file, atClose>>
       \/ /\ adapter = "FileBacked"
          /\ file' = Wrap_closeFile(storage)
          /\ storage' = Mem_close(storage)
          /\ atClose' = storage
       \/ /\ adapter = "FileDirect"
          /\ UNCHANGED <<storage, file, atClose>>
    /\ call' = Call("close")
    /\ UNCHANGED <<adapter, counters, req>>
    /\ UNCHANGED strategyVars
    /\ UNCHANGED <<heap, reference>>

Next ==
    \/ Construct
    \/ Initialize
    \/ \E unit \in Units, materialization \in Mats : Load(unit, materialization)
    \/ \E unit \in Units, assignments \in Assignments : Store(unit, assignments)
    \/ Close

Spec == Init /\ [][Next]_vars

----------------------------------------------------------------------------
(* Two resolution requests for one unit on one InMemory repository, each    *)
(* taking the store path of the coordinator: loadAll for the missing       *)
(* materialization id, re-resolve, fold the rule entry it decided into the  *)
(* loaded records, save.  The two awaits (load, store) are where requests   *)
(* interleave; the repository's methods have no await inside.               *)

Requests == {1, 2}
ReqUnit == "u1"

\* the records a request saves: those it loaded, with the entry it decided
\* added under its materialization id.  A rule the loaded record already
\* assigns keeps its variant (the resolver honours a loaded assignment).
MergedRecords(r) ==
    LET loaded == r.records[r.materialization].ruleToVariant
        merged == IF r.rule \in DOMAIN loaded
                  THEN loaded
                  ELSE MapSet(loaded, r.rule, r.variant)
    IN  MapSet(r.records, r.materialization,
               [unitInInfo |-> TRUE, ruleToVariant |-> merged])

InitReq ==
    /\ adapter = "InMemory"
    /\ pc = "running"
    /\ storage \in {EmptyMap, [u \in {ReqUnit} |-> [id \in {"m1"} |-> InfoA]]}
    /\ loadCount = 0
    /\ storeCount = 0
    /\ cacheHits = 0
    /\ cacheMisses = 0
    /\ file = NoFile
    /\ call = Call("new")
    /\ atClose = EmptyMap
    /\ req \in [Requests -> [pc : {"start"}, materialization : Mats, rule : Rules,
                             variant : Variants, records : {EmptyMap}]]
    /\ strategy = EmptyMap /\ guards = EmptyMap /\ remote = EmptyMap /\ coord = EmptyMap
    /\ heap = EmptyMap
    /\ reference = EmptyMap

ReqLoad(i) ==
    /\ req[i].pc = "start"
    /\ loadCount' = loadCount + 1
    /\ IF Mem_isHit(storage, ReqUnit, req[i].materialization)
       THEN cacheHits' = cacheHits + 1 /\ UNCHANGED cacheMisses
       ELSE cacheMisses' = cacheMisses + 1 /\ UNCHANGED cacheHits
    /\ LET ret == Mem_loadMaterializedAssignmentsForUnit(
                      storage, ReqUnit, req[i].materialization)
       IN  /\ call' = LoadCall(ReqUnit, req[i].materialization, ret)
           /\ req' = [req EXCEPT ![i].pc = "loaded", ![i].records = ret]
    /\ UNCHANGED <<adapter, pc, storage, storeCount, file, atClose>>
    /\ UNCHANGED strategyVars
    /\ UNCHANGED <<heap, reference>>

ReqSave(i) ==
    /\ req[i].pc = "loaded"
    /\ storeCount' = storeCount + 1
    /\ LET records == MergedRecords(req[i])
       IN  /\ storage' = Mem_storeAssignment(storage, ReqUnit, records)
           /\ call' = StoreCall(ReqUnit, records)
           /\ req' = [req EXCEPT ![i].pc = "done", ![i].records = records]
    /\ UNCHANGED <<adapter, pc, loadCount, cacheHits, cacheMisses, file, atClose>>
    /\ UNCHANGED strategyVars
    /\ UNCHANGED <<heap, reference>>

NextReq ==
    \/ \E i \in Requests : ReqLoad(i)
    \/ \E i \in Requests : ReqSave(i)

SpecReq == InitReq /\ [][NextReq]_vars

----------------------------------------------------------------------------
(* What the constructed repository holds and returns, whichever class it is *)

\* unit -> (id -> info) as the repository holds it
Stored == IF adapter = "FileDirect" THEN Disk_readAllData(file) ELSE storage

UnitRecords(unit) == IF unit \in DOMAIN Stored THEN Stored[unit] ELSE EmptyMap

\* what loadMaterializedAssignmentsForUnit(unit, materialization) would return now
loadAll(unit, materialization) ==
    IF adapter = "FileDirect"
    THEN Disk_loadMaterializedAssignmentsForUnit(file, unit, materialization)
    ELSE Mem_loadMaterializedAssignmentsForUnit(storage, unit, materialization)

\* some loadAll for the unit returns variant for rule
Returns(unit, rule, variant) ==
    \E materialization \in Mats :
        LET res == loadAll(unit, materialization)
        IN  \E id \in DOMAIN res :
                /\ rule \in DOMAIN res[id].ruleToVariant
                /\ res[id].ruleToVariant[rule] = variant

----------------------------------------------------------------------------
(* C1 (as claimed): sticky invariant.  Once some loadAll for unit U returns  *)
(* variant V for rule R, it still does after any further load or store.     *)
C1_StickyInvariant ==
    [][call'.op \in {"load", "store"} =>
        \A unit \in Units, rule \in Rules, variant \in Variants :
            Returns(unit, rule, variant) => Returns(unit, rule, variant)']_vars

(* C2 (as claimed): when both requests have saved, the repository holds    *)
(* the rule entry of each of them, whenever the two decided entries for     *)
(* distinct rules (of the same or of different materialization ids).        *)
C2_FinalStateIsUnion ==
    (\A i \in Requests : req[i].pc = "done") =>
        \A i \in Requests, j \in Requests :
            (<<req[i].materialization, req[i].rule>> #
                <<req[j].materialization, req[j].rule>>) =>
                LET rules == loadAll(ReqUnit, req[i].materialization)
                                [req[i].materialization].ruleToVariant
                    saved == req[i].records[req[i].materialization].ruleToVariant
                IN  /\ req[i].rule \in DOMAIN rules
                    /\ rules[req[i].rule] = saved[req[i].rule]

(* C3 (as claimed): merge correctness.  A store to a non-empty unit unions  *)
(* the rule entries already stored under a materialization id with the      *)
(* saved ones: loadAll(u, id) afterwards returns the union under id.        *)
C3_MergeIsUnion ==
    [][\A unit \in Units \ {""} :
        (call'.op = "store" /\ call'.unit = unit) =>
            \A id \in DOMAIN call'.assignments :
                id \in DOMAIN UnitRecords(unit) =>
                    loadAll(unit, id)'[id].ruleToVariant =
                        MapSetAll(UnitRecords(unit)[id].ruleToVariant,
                                  call'.assignments[id].ruleToVariant)]_vars

(* C4: a store to a non-empty unit replaces the stored value of every id    *)
(* present in the assignments by the given value, and leaves every other id *)
(* of the unit as it was (present with the same value, or absent).          *)
C4_SaveReplacesPerId ==
    [][\A unit \in Units \ {""} :
        (call'.op = "store" /\ call'.unit = unit) =>
            LET before == UnitRecords(unit)
                after == UnitRecords(unit)'
            IN  \A id \in Mats :
                    IF id \in DOMAIN call'.assignments
                    THEN /\ id \in DOMAIN after
                         /\ after[id] = call'.assignments[id]
                    ELSE /\ (id \in DOMAIN after) = (id \in DOMAIN before)
                         /\ id \in DOMAIN before => after[id] = before[id]]_vars

\* a running FileBacked repo initialized from {u1: {m1: InfoA, m2: InfoB}} whose
\* only store since then was store(u1, {m1: InfoB})
C4_Witness ==
    /\ adapter = "FileBacked"
    /\ pc = "running"
    /\ atClose = [u \in {"u1"} |-> [id \in Mats |-> IF id = "m1" THEN InfoA ELSE InfoB]]
    /\ storeCount = 2
    /\ call = StoreCall("u1", [id \in {"m1"} |-> InfoB])
    /\ storage["u1"] = [id \in Mats |-> InfoB]

(* C5: a load for a unit or id the repository does not hold returns exactly *)
(* one entry, keyed by the requested id, holding the default record; no     *)
(* load returns an empty map.                                               *)
C5_DefaultRecord ==
    call.op = "load" =>
        /\ DOMAIN call.ret # {}
        /\ call.materialization \notin DOMAIN UnitRecords(call.unit) =>
              /\ DOMAIN call.ret = {call.materialization}
              /\ call.ret[call.materialization] =
                    [unitInInfo |-> FALSE, ruleToVariant |-> EmptyMap]

\* a miss on an id of a unit that holds another id
C5_Witness ==
    /\ call.op = "load"
    /\ call.unit = "u1"
    /\ call.materialization = "m2"
    /\ DOMAIN UnitRecords("u1") = {"m1"}
    /\ cacheMisses = 1

(* C6 (as claimed): a load returns every record stored for the unit, not    *)
(* only the record of the requested id.                                     *)
C6_LoadReturnsAllRecords ==
    call.op = "load" =>
        \A id \in DOMAIN UnitRecords(call.unit) :
            /\ id \in DOMAIN call.ret
            /\ call.ret[id] = UnitRecords(call.unit)[id]

(* C7: a store with the empty unit changes neither the stored records nor   *)
(* the file, and the repository holds no entry for the empty unit.          *)
C7_EmptyUnitIsNoOp ==
    [][(call'.op = "store" /\ call'.unit = "") =>
        /\ storage' = storage
        /\ file' = file
        /\ "" \notin DOMAIN Stored']_vars

\* a store of a non-empty map to the empty unit on a repository holding records
C7_Witness ==
    /\ call.op = "store"
    /\ call.unit = ""
    /\ call.assignments # EmptyMap
    /\ \E unit \in DOMAIN Stored : Stored[unit] # EmptyMap

(* C8 (as claimed): a close that follows a close changes neither the state  *)
(* in memory nor the persisted file.                                        *)
C8_SecondCloseNoEffect ==
    [][(call.op = "close" /\ call'.op = "close") =>
        /\ storage' = storage
        /\ file' = file]_vars

(* C9: file round trip.  A fresh FileBacked repo, initialized on the file   *)
(* the previous close wrote and not stored into since, returns from every   *)
(* load exactly the record the closed repo held when it was closed.         *)
C9_FileRoundTrip ==
    (/\ adapter = "FileBacked"
     /\ pc = "running"
     /\ storeCount = Wrap_initializeStores(file)) =>
        /\ \A unit \in Units, id \in Mats :
              loadAll(unit, id) =
                Mem_loadMaterializedAssignmentsForUnit(atClose, unit, id)
        /\ call.op = "load" =>
              call.ret = Mem_loadMaterializedAssignmentsForUnit(
                             atClose, call.unit, call.materialization)

\* records of u1 and u2 were written by close and a fresh repo has loaded one
C9_Witness ==
    /\ adapter = "FileBacked"
    /\ pc = "running"
    /\ storeCount = Wrap_initializeStores(file)
    /\ DOMAIN atClose = {"u1", "u2"}
    /\ atClose["u1"] # EmptyMap
    /\ atClose["u2"] # EmptyMap
    /\ atClose["u1"] # atClose["u2"]
    /\ call.op = "load"
    /\ cacheHits = 1

(* C10 (as claimed): after any load, store or close every (unit, id, rule)  *)
(* entry that a load returned before is still returned, with its variant.   *)
C10_EntriesNeverRemoved ==
    [][call'.op \in {"load", "store", "close"} =>
        \A unit \in Units, id \in Mats, rule \in Rules :
            rule \in DOMAIN loadAll(unit, id)[id].ruleToVariant =>
                /\ rule \in DOMAIN loadAll(unit, id)'[id].ruleToVariant
                /\ loadAll(unit, id)'[id].ruleToVariant[rule] =
                      loadAll(unit, id)[id].ruleToVariant[rule]]_vars

----------------------------------------------------------------------------
(* StickyResolveStrategy type guards.  A strategy object is modelled by     *)
(* what it holds, own or inherited from its class, under each property      *)
(* name the guards look at: "absent" (no such property), "function", or a   *)
(* value that is not a function ("string", or the value undefined).         *)

Props == {"resolve", "loadMaterializedAssignmentsForUnit", "storeAssignment", "close"}
Kinds == {"absent", "function", "string", "undefined"}
Strategies == [Props -> Kinds]

\* 'prop' in s
In(prop, s) == s[prop] # "absent"

\* typeof s.prop ; reading a property the object lacks yields undefined
typeof(s, prop) == IF s[prop] \in {"absent", "undefined"} THEN "undefined" ELSE s[prop]

\* the guard without its typeof test
isResolverFallback_inOnly(s) == In("resolve", s)

\* the guard looking at the one method every StickyResolveStrategy has
isResolverFallback_closeOnly(s) == In("close", s) /\ typeof(s, "close") = "function"

isResolverFallback(s) ==
    In("resolve", s) /\ typeof(s, "resolve") = "function"

\* the guard with || between the two methods
isMaterializationRepository_either(s) ==
    \/ In("loadMaterializedAssignmentsForUnit", s)
       /\ typeof(s, "loadMaterializedAssignmentsForUnit") = "function"
    \/ In("storeAssignment", s) /\ typeof(s, "storeAssignment") = "function"

isMaterializationRepository(s) ==
    /\ In("loadMaterializedAssignmentsForUnit", s)
    /\ In("storeAssignment", s)
    /\ typeof(s, "loadMaterializedAssignmentsForUnit") = "function"
    /\ typeof(s, "storeAssignment") = "function"

\* an instance of a class declaring exactly these methods among Props
InstanceWith(methods) == [p \in Props |-> IF p \in methods THEN "function" ELSE "absent"]

RemoteResolverFallback_instance == InstanceWith({"resolve", "close"})

InMemoryMaterializationRepo_instance ==
    InstanceWith({"loadMaterializedAssignmentsForUnit", "storeAssignment", "close"})

FileBackedMaterializationRepo_instance ==
    InstanceWith({"loadMaterializedAssignmentsForUnit", "storeAssignment", "close"})

\* the repository side of the model at rest: an InMemory repository nobody calls
RepoIdle ==
    /\ adapter = "InMemory"
    /\ pc = "running"
    /\ storage = EmptyMap
    /\ loadCount = 0
    /\ storeCount = 0
    /\ cacheHits = 0
    /\ cacheMisses = 0
    /\ file = NoFile
    /\ call = Call("new")
    /\ atClose = EmptyMap
    /\ req = EmptyMap
    /\ heap = EmptyMap
    /\ reference = EmptyMap

InitGuard ==
    /\ RepoIdle
    /\ strategy \in Strategies
    /\ guards = EmptyMap
    /\ remote = EmptyMap
    /\ coord = EmptyMap

CheckResolverFallback ==
    /\ guards' = MapSet(guards, "isResolverFallback", isResolverFallback(strategy))
    /\ UNCHANGED <<strategy, remote, coord>>
    /\ UNCHANGED repoVars
    /\ UNCHANGED <<heap, reference>>

CheckMaterializationRepository ==
    /\ guards' = MapSet(guards, "isMaterializationRepository",
                        isMaterializationRepository(strategy))
    /\ UNCHANGED <<strategy, remote, coord>>
    /\ UNCHANGED repoVars
    /\ UNCHANGED <<heap, reference>>

NextGuard ==
    \/ CheckResolverFallback
    \/ CheckMaterializationRepository

SpecGuard == InitGuard /\ [][NextGuard]_vars

\* both guards have been applied to the strategy
BothChecked == DOMAIN guards = {"isResolverFallback", "isMaterializationRepository"}

\* the property holds a function
IsFunction(prop) == strategy[prop] = "function"

(* C11  Classification is structural: isMaterializationRepository returns   *)
(* true exactly when loadMaterializedAssignmentsForUnit and storeAssignment *)
(* are both present and functions, isResolverFallback returns true exactly  *)
(* when resolve is present and a function; a property that is present but   *)
(* holds something else does not count.                                     *)
C11_StructuralClassification ==
    /\ "isMaterializationRepository" \in DOMAIN guards =>
          (guards["isMaterializationRepository"] <=>
              (IsFunction("loadMaterializedAssignmentsForUnit")
                 /\ IsFunction("storeAssignment")))
    /\ "isResolverFallback" \in DOMAIN guards =>
          (guards["isResolverFallback"] <=> IsFunction("resolve"))

\* resolve is present but a string, storeAssignment is present but undefined:
\* neither guard accepts the object
C11_Witness ==
    /\ BothChecked
    /\ strategy["resolve"] = "string"
    /\ strategy["loadMaterializedAssignmentsForUnit"] = "function"
    /\ strategy["storeAssignment"] = "undefined"
    /\ ~guards["isResolverFallback"]
    /\ ~guards["isMaterializationRepository"]

(* C12 as stated  For every strategy object isResolverFallback and          *)
(* isMaterializationRepository are never both true.                         *)
C12_NeverBoth ==
    BothChecked =>
        ~(guards["isResolverFallback"] /\ guards["isMaterializationRepository"])

(* C12 amended  The two guards are both true exactly for a strategy object  *)
(* that holds functions under resolve, loadMaterializedAssignmentsForUnit   *)
(* and storeAssignment all three; for every other strategy object at most   *)
(* one of them is true.                                                     *)
C12_BothOnlyForAllThree ==
    BothChecked =>
        ((guards["isResolverFallback"] /\ guards["isMaterializationRepository"])
            <=> (IsFunction("resolve")
                   /\ IsFunction("loadMaterializedAssignmentsForUnit")
                   /\ IsFunction("storeAssignment")))

C12_Witness ==
    /\ BothChecked
    /\ IsFunction("resolve")
    /\ IsFunction("loadMaterializedAssignmentsForUnit")
    /\ IsFunction("storeAssignment")
    /\ guards["isResolverFallback"]
    /\ guards["isMaterializationRepository"]

(* C13  Each built-in adapter is classified as exactly one strategy: a      *)
(* RemoteResolverFallback is a ResolverFallback and not a                   *)
(* MaterializationRepository; an InMemoryMaterializationRepo and a          *)
(* FileBackedMaterializationRepo are a MaterializationRepository and not a  *)
(* ResolverFallback.                                                        *)
C13_BuiltInAdapters ==
    BothChecked =>
        /\ strategy = RemoteResolverFallback_instance =>
              guards["isResolverFallback"] /\ ~guards["isMaterializationRepository"]
        /\ strategy \in {InMemoryMaterializationRepo_instance,
                         FileBackedMaterializationRepo_instance} =>
              guards["isMaterializationRepository"] /\ ~guards["isResolverFallback"]

C13_Witness ==
    /\ BothChecked
    /\ strategy = InMemoryMaterializationRepo_instance
    /\ guards["isMaterializationRepository"]
    /\ ~guards["isResolverFallback"]

----------------------------------------------------------------------------
(* The resolution coordinator (the provider that owns the strategy).  It    *)
(* classifies the configured strategy once, at construction, with the type  *)
(* guards above, and then serves resolution requests one after another:     *)
(* first local attempt; on a missing-materialization signal either          *)
(* loadAll / re-resolve / save on the store, or resolve on the authority.   *)
(* A decision is "match" or "nomatch"; "missing" is the first attempt's     *)
(* signal for a flag; "unresolved" marks a flag degraded by a store error.  *)

Flags == {"f1", "f2"}
Decisions == {"match", "nomatch"}

\* the strategy objects a provider is configured with; with no strategy
\* option the provider constructs a RemoteResolverFallback itself
CoordStrategies ==
    {s \in Strategies : \A p \in Props : s[p] \in {"absent", "function"}}

\* takes the first guard that accepts the object
SelectStrategy_firstMatch(s) ==
    IF isResolverFallback(s) THEN "authority"
    ELSE IF isMaterializationRepository(s) THEN "store"
    ELSE "ConfigurationError"

SelectStrategy(s) ==
    IF isResolverFallback(s) = isMaterializationRepository(s)
    THEN "ConfigurationError"
    ELSE IF isResolverFallback(s) THEN "authority" ELSE "store"

\* the flags the first attempt could not decide
Missing(first) == {f \in DOMAIN first : first[f] = "missing"}

\* consults the strategy on every request
NeedsStrategy_always(first) == TRUE

NeedsStrategy(first) == Missing(first) # {}

\* delegates whichever strategy is active
UsesAuthority_any(active) == TRUE

UsesAuthority(active) == active = "authority"

UsesStore(active) == active = "store"

\* a failed flag reported as an ordinary no-match
StoreResponse_noMatch(first, second, failed) ==
    [f \in DOMAIN first |->
        IF first[f] # "missing" THEN first[f]
        ELSE IF f \in failed THEN "nomatch" ELSE second[f]]

\* the response of the store path: first-attempt decisions kept, re-resolved
\* decisions for the flags whose records loaded and saved, "unresolved" for
\* the flags hit by a StoreError
StoreResponse(first, second, failed) ==
    [f \in DOMAIN first |->
        IF first[f] # "missing" THEN first[f]
        ELSE IF f \in failed THEN "unresolved" ELSE second[f]]

\* catches every kind of error
Caught_any(kind) == TRUE

\* the kinds of error the coordinator catches; the others propagate
Caught(kind) == kind = "StoreError"

\* after an error the coordinator waits before trying again
ErrorOutcome_backoff(c, kind) == [c EXCEPT !.pc = "backoff", !.raised = kind]

\* the request of coordinator state c ends on an error of this kind raised
\* by the local resolver or the strategy: a caught error degrades the flags
\* still undecided, any other is thrown to the caller, who gets no decision
ErrorOutcome(c, kind) ==
    [c EXCEPT
       !.pc = "ready",
       !.raised = kind,
       !.thrown = IF Caught(kind) THEN "none" ELSE kind,
       !.failed = IF Caught(kind) THEN c.flags \ {f \in DOMAIN c.first : c.first[f] # "missing"}
                  ELSE {},
       !.response = IF Caught(kind)
                    THEN [f \in c.flags |->
                            IF f \in DOMAIN c.first /\ c.first[f] # "missing"
                            THEN c.first[f] ELSE "unresolved"]
                    ELSE EmptyMap]

NewCoordinator ==
    [pc |-> "new", active |-> "none", error |-> "none",
     flags |-> {}, first |-> EmptyMap, failed |-> {}, response |-> EmptyMap,
     thrown |-> "none", raised |-> "none", calls |-> {}, everCalled |-> {}]

InitCoord ==
    /\ RepoIdle
    /\ strategy \in CoordStrategies
    /\ guards = EmptyMap
    /\ remote = EmptyMap
    /\ coord = NewCoordinator

\* the constructor: classify the strategy, reject an ambiguous one
CoordConstruct ==
    /\ coord.pc = "new"
    /\ LET selected == SelectStrategy(strategy)
       IN  coord' = IF selected = "ConfigurationError"
                    THEN [coord EXCEPT !.pc = "failed", !.error = selected]
                    ELSE [coord EXCEPT !.pc = "ready", !.active = selected]
    /\ UNCHANGED <<strategy, guards, remote>>
    /\ UNCHANGED repoVars
    /\ UNCHANGED <<heap, reference>>

\* steps 1-3: the first local attempt; without a signal its decision is returned
CoordResolve(flags, first) ==
    /\ coord.pc = "ready"
    /\ DOMAIN first = flags
    /\ coord' = [coord EXCEPT
                   !.pc = IF NeedsStrategy(first) THEN "missing" ELSE "ready",
                   !.flags = flags,
                   !.first = first,
                   !.failed = {},
                   !.response = IF NeedsStrategy(first) THEN EmptyMap ELSE first,
                   !.thrown = "none",
                   !.raised = "none",
                   !.calls = {}]
    /\ UNCHANGED <<strategy, guards, remote>>
    /\ UNCHANGED repoVars
    /\ UNCHANGED <<heap, reference>>

\* step 4a: loadAll for the missing ids; it fails with a StoreError for
\* the flags in failed
CoordLoadAll(failed) ==
    /\ coord.pc = "missing"
    /\ UsesStore(coord.active)
    /\ failed \subseteq Missing(coord.first)
    /\ coord' = [coord EXCEPT
                   !.pc = IF failed = Missing(coord.first) THEN "ready" ELSE "loaded",
                   !.failed = failed,
                   !.response = IF failed = Missing(coord.first)
                                THEN StoreResponse(coord.first, EmptyMap, failed)
                                ELSE EmptyMap,
                   !.raised = IF failed # {} THEN "StoreError" ELSE "none",
                   !.calls = @ \cup {"loadAll"},
                   !.everCalled = @ \cup {"loadAll"}]
    /\ UNCHANGED <<strategy, guards, remote>>
    /\ UNCHANGED repoVars
    /\ UNCHANGED <<heap, reference>>

\* steps 4b-4d: re-resolve with the loaded records, save the merged records;
\* a save that fails with a StoreError degrades the flags it was for
CoordSave(second, saved) ==
    /\ coord.pc = "loaded"
    /\ DOMAIN second = Missing(coord.first) \ coord.failed
    /\ LET failed == IF saved THEN coord.failed ELSE Missing(coord.first)
       IN  coord' = [coord EXCEPT
                       !.pc = "ready",
                       !.failed = failed,
                       !.response = StoreResponse(coord.first, second, failed),
                       !.raised = IF saved THEN @ ELSE "StoreError",
                       !.calls = @ \cup {"save"},
                       !.everCalled = @ \cup {"save"}]
    /\ UNCHANGED <<strategy, guards, remote>>
    /\ UNCHANGED repoVars
    /\ UNCHANGED <<heap, reference>>

\* step 5: the whole request goes to the authority, whose answer is returned
CoordDelegate(answer) ==
    /\ coord.pc = "missing"
    /\ UsesAuthority(coord.active)
    /\ DOMAIN answer = coord.flags
    /\ coord' = [coord EXCEPT
                   !.pc = "ready",
                   !.response = answer,
                   !.calls = @ \cup {"resolve"},
                   !.everCalled = @ \cup {"resolve"}]
    /\ UNCHANGED <<strategy, guards, remote>>
    /\ UNCHANGED repoVars
    /\ UNCHANGED <<heap, reference>>

\* step 5 when resolve rejects: the AuthorityError fails the request
CoordDelegateFails ==
    /\ coord.pc = "missing"
    /\ UsesAuthority(coord.active)
    /\ coord' = ErrorOutcome([coord EXCEPT !.calls = @ \cup {"resolve"},
                                           !.everCalled = @ \cup {"resolve"}],
                              "AuthorityError")
    /\ UNCHANGED <<strategy, guards, remote>>
    /\ UNCHANGED repoVars
    /\ UNCHANGED <<heap, reference>>

\* step 1 when the local resolver itself fails: a ResolverError
CoordResolveFails(flags) ==
    /\ coord.pc = "ready"
    /\ coord' = ErrorOutcome([coord EXCEPT !.flags = flags,
                                           !.first = EmptyMap,
                                           !.calls = {}],
                              "ResolverError")
    /\ UNCHANGED <<strategy, guards, remote>>
    /\ UNCHANGED repoVars
    /\ UNCHANGED <<heap, reference>>

\* step 4b when the local resolver fails on the second attempt
CoordReResolveFails ==
    /\ coord.pc = "loaded"
    /\ coord' = ErrorOutcome(coord, "ResolverError")
    /\ UNCHANGED <<strategy, guards, remote>>
    /\ UNCHANGED repoVars
    /\ UNCHANGED <<heap, reference>>

\* the functions from a subset of Flags to values
Outcomes(flags, values) == [flags -> values]

NextCoord ==
    \/ CoordConstruct
    \/ \E flags \in (SUBSET Flags) \ {{}} :
          \E first \in Outcomes(flags, Decisions \cup {"missing"}) :
             CoordResolve(flags, first)
    \/ \E failed \in SUBSET Flags : CoordLoadAll(failed)
    \/ \E flags \in SUBSET Flags : \E second \in Outcomes(flags, Decisions) :
          \E saved \in BOOLEAN : CoordSave(second, saved)
    \/ \E flags \in SUBSET Flags : \E answer \in Outcomes(flags, Decisions) :
          CoordDelegate(answer)
    \/ CoordDelegateFails
    \/ \E flags \in (SUBSET Flags) \ {{}} : CoordResolveFails(flags)
    \/ CoordReResolveFails

SpecCoord == InitCoord /\ [][NextCoord]_vars

\* a call of the active strategy in flight settles, one way or the other
StrategySettles ==
    \/ \E failed \in SUBSET Flags : CoordLoadAll(failed)
    \/ \E flags \in SUBSET Flags : \E second \in Outcomes(flags, Decisions) :
          \E saved \in BOOLEAN : CoordSave(second, saved)
    \/ \E flags \in SUBSET Flags : \E answer \in Outcomes(flags, Decisions) :
          CoordDelegate(answer)
    \/ CoordDelegateFails

\* the coordinator over a strategy whose calls do not hang
SpecCoordFair == InitCoord /\ [][NextCoord]_vars /\ WF_vars(StrategySettles)

\* the configured strategy passes both guards or neither
Ambiguous == isResolverFallback(strategy) = isMaterializationRepository(strategy)

(* C14  A strategy that exposes both the store operations and resolve, or   *)
(* neither, is rejected with a ConfigurationError by the constructor: the   *)
(* coordinator never gets past construction, so no request is processed and *)
(* no strategy call is made; and a ConfigurationError is only ever raised   *)
(* by the constructor, never while a request is handled.                    *)
C14_AmbiguousRejectedAtConstruction ==
    /\ Ambiguous =>
          /\ coord.pc \in {"new", "failed"}
          /\ coord.pc = "failed" => coord.error = "ConfigurationError"
          /\ coord.flags = {}
          /\ coord.response = EmptyMap
          /\ coord.everCalled = {}
    /\ coord.error = "ConfigurationError" =>
          coord.pc = "failed" /\ coord.flags = {} /\ Ambiguous
    /\ coord.thrown # "ConfigurationError"

C14_Witness ==
    /\ isResolverFallback(strategy)
    /\ isMaterializationRepository(strategy)
    /\ coord.pc = "failed"
    /\ coord.error = "ConfigurationError"

----------------------------------------------------------------------------
(* RemoteResolverFallback.  The options object is a function whose DOMAIN   *)
(* holds "baseUrl" when a base URL is configured.  resolve() has one await  *)
(* on the transport (fetch): the call goes out, and later either rejects or *)
(* answers with a response [ok, status, statusText, json].  The text of a   *)
(* JSON object is the set of its members, true/false being literals.        *)

DefaultBaseUrl == "https://resolver.confidence.dev/v1"

RemoteOptions ==
    {EmptyMap, [o \in {"baseUrl"} |-> "https://custom.example.com/v2"],
     [o \in {"baseUrl"} |-> ""]}

\* options.baseUrl || default
Remote_baseUrl_orDefault(options) ==
    IF "baseUrl" \in DOMAIN options /\ options["baseUrl"] # ""
    THEN options["baseUrl"] ELSE DefaultBaseUrl

\* options.baseUrl ?? default
Remote_baseUrl(options) ==
    IF "baseUrl" \in DOMAIN options THEN options["baseUrl"] ELSE DefaultBaseUrl

ResolveRequests ==
    [flags : {<< >>, <<"flags/test-flag">>},
     evaluationContext : {[a \in {"targetingKey"} |-> "user-123"],
                          [a \in {"targetingKey", "country"} |->
                              IF a = "country" THEN "US" ELSE "user-123"]},
     clientSecret : {"client-secret", ""},
     apply : BOOLEAN]

\* ResolveFlagsRequestCodec.toJSON
ResolveFlagsRequest_toJSON(request) ==
    [flags |-> request.flags,
     evaluationContext |-> request.evaluationContext,
     clientSecret |-> request.clientSecret,
     apply |-> request.apply]

\* JSON.stringify of the request JSON
JSON_stringifyRequest(json) ==
    {<<"flags", json.flags>>,
     <<"evaluationContext", Members(json.evaluationContext)>>,
     <<"clientSecret", json.clientSecret>>,
     <<"apply", IF json.apply THEN "true" ELSE "false">>}

\* JSON.parse of a request body, as the tests read it back
JSON_parseRequest(text) ==
    LET obj == ObjectOf(text)
    IN  [flags |-> obj["flags"],
         evaluationContext |-> ObjectOf(obj["evaluationContext"]),
         clientSecret |-> obj["clientSecret"],
         apply |-> obj["apply"] = "true"]

\* the arguments of the fetch call
FetchCall(baseUrl, request) ==
    [url |-> baseUrl \o "/flags:resolve",
     method |-> "POST",
     headers |-> [h \in {"Content-Type"} |-> "application/json"],
     body |-> JSON_stringifyRequest(ResolveFlagsRequest_toJSON(request))]

\* what the authority answers
ResolvedFlag1 ==
    [flag |-> "flag-1", variant |-> "variant-a",
     value |-> [k \in {"setting"} |-> "value1"], reason |-> "RESOLVE_REASON_MATCH"]
ResolvedFlag2 ==
    [flag |-> "flag-2", variant |-> "variant-b",
     value |-> [k \in {"setting"} |-> "value2"],
     reason |-> "RESOLVE_REASON_NO_SEGMENT_MATCH"]

AuthorityDecisions ==
    [resolvedFlags : {<< >>, <<ResolvedFlag1>>, <<ResolvedFlag1, ResolvedFlag2>>,
                      <<ResolvedFlag2, ResolvedFlag1>>},
     resolveToken : {""},
     resolveId : {"resolve-123", "resolve-456"}]

\* what resp.json() yields when the body is no JSON text
NoJson == [valid |-> FALSE, value |-> EmptyMap]

Json(value) == [valid |-> TRUE, value |-> value]

StatusTexts == (200 :> "OK") @@ (404 :> "Not Found") @@ (500 :> "Internal Server Error")

\* Response.ok of the transport
Ok(status) == status >= 200 /\ status <= 299

Responses ==
    {[ok |-> Ok(status), status |-> status, statusText |-> StatusTexts[status],
      json |-> json] :
        status \in DOMAIN StatusTexts,
        json \in {NoJson} \cup {Json(d) : d \in AuthorityDecisions}}

TransportErrors == {"Network error", "socket hang up"}

\* a member of the ResolveReason enum
ResolveReason(name) == [enum |-> "ResolveReason", member |-> name]

\* ResolveFlagsResponseCodec.fromJSON
ResolveFlagsResponse_fromJSON(json) ==
    [resolvedFlags |->
        IF "resolvedFlags" \in DOMAIN json
        THEN [i \in DOMAIN json.resolvedFlags |->
                [flag |-> json.resolvedFlags[i].flag,
                 variant |-> json.resolvedFlags[i].variant,
                 value |-> json.resolvedFlags[i].value,
                 reason |-> ResolveReason(json.resolvedFlags[i].reason)]]
        ELSE << >>,
     resolveToken |-> << >>,
     resolveId |-> IF "resolveId" \in DOMAIN json THEN json.resolveId ELSE ""]

\* how the promise returned by resolve() settles
Rejected(error) == [state |-> "rejected", error |-> error, value |-> EmptyMap]
Fulfilled(value) == [state |-> "fulfilled", error |-> "", value |-> value]
Pending == [state |-> "pending", error |-> "", value |-> EmptyMap]

RemoteFailure(resp) ==
    "Remote resolve failed: " \o ToString(resp.status) \o " " \o resp.statusText

\* resolve() without the resp.ok test
Remote_onResponse_ignoreStatus(resp) ==
    IF resp.json.valid
    THEN Fulfilled(ResolveFlagsResponse_fromJSON(resp.json.value))
    ELSE Rejected("SyntaxError")

\* resolve() decoding the promise resp.json() returns, not what it resolves to
Remote_onResponse_notAwaited(resp) ==
    IF ~resp.ok THEN Rejected(RemoteFailure(resp))
    ELSE Fulfilled(ResolveFlagsResponse_fromJSON(EmptyMap))

\* resolve() after the transport answered
Remote_onResponse(resp) ==
    IF ~resp.ok THEN Rejected(RemoteFailure(resp))
    ELSE IF ~resp.json.valid THEN Rejected("SyntaxError")
    ELSE Fulfilled(ResolveFlagsResponse_fromJSON(resp.json.value))

\* mutant: a rejected attempt is made once more before resolve() rejects
Remote_settle_retry(r, outcome) ==
    IF outcome.state = "rejected" /\ r.fetches < 2
    THEN [r EXCEPT !.pc = "awaiting", !.fetches = @ + 1]
    ELSE [r EXCEPT !.pc = "settled", !.result = outcome]

\* resolve() returns or throws: its promise settles with the outcome
Remote_settle(r, outcome) == [r EXCEPT !.pc = "settled", !.result = outcome]

NoFetch == [url |-> "", method |-> "", headers |-> EmptyMap, body |-> {}]
NoResponse == [ok |-> FALSE, status |-> 0, statusText |-> "", json |-> NoJson]

InitRemote ==
    /\ RepoIdle
    /\ strategy = RemoteResolverFallback_instance
    /\ guards = EmptyMap
    /\ coord = EmptyMap
    /\ \E options \in RemoteOptions :
          remote = [options |-> options, baseUrl |-> Remote_baseUrl(options),
                    pc |-> "idle", request |-> EmptyMap, sent |-> NoFetch,
                    transport |-> "none", resp |-> NoResponse, result |-> Pending,
                    fetches |-> 0, previous |-> Pending.state]

\* resolve(request) up to its await on the transport
RemoteResolve(request) ==
    /\ remote.pc \in {"idle", "settled"}
    /\ remote' = [remote EXCEPT !.pc = "awaiting",
                                !.request = request,
                                !.sent = FetchCall(remote.baseUrl, request),
                                !.transport = "none",
                                !.resp = NoResponse,
                                !.result = Pending,
                                !.fetches = 1,
                                !.previous = remote.result.state]
    /\ UNCHANGED <<strategy, guards, coord>>
    /\ UNCHANGED repoVars
    /\ UNCHANGED <<heap, reference>>

\* the transport call rejects
FetchRejects(error) ==
    /\ remote.pc = "awaiting"
    /\ remote' = Remote_settle([remote EXCEPT !.transport = error], Rejected(error))
    /\ UNCHANGED <<strategy, guards, coord>>
    /\ UNCHANGED repoVars
    /\ UNCHANGED <<heap, reference>>

\* the transport call answers
FetchResponds(resp) ==
    /\ remote.pc = "awaiting"
    /\ remote' = Remote_settle([remote EXCEPT !.transport = "responded", !.resp = resp],
                               Remote_onResponse(resp))
    /\ UNCHANGED <<strategy, guards, coord>>
    /\ UNCHANGED repoVars
    /\ UNCHANGED <<heap, reference>>

NextRemote ==
    \/ \E request \in ResolveRequests : RemoteResolve(request)
    \/ \E error \in TransportErrors : FetchRejects(error)
    \/ \E resp \in Responses : FetchResponds(resp)

SpecRemote == InitRemote /\ [][NextRemote]_vars

(* C15  A failed remote call fails the whole batch: when the transport call *)
(* rejects, resolve rejects with the transport's own error; when the        *)
(* authority answers with a non-success status, resolve rejects with        *)
(* "Remote resolve failed: <status> <statusText>"; in both cases it returns *)
(* no flag decision at all.                                                 *)
C15_FailedCallFailsBatch ==
    remote.pc = "settled" =>
        /\ remote.transport \in TransportErrors =>
              remote.result = Rejected(remote.transport)
        /\ (remote.transport = "responded" /\ ~Ok(remote.resp.status)) =>
              /\ remote.result.state = "rejected"
              /\ remote.result.error =
                    "Remote resolve failed: " \o ToString(remote.resp.status)
                        \o " " \o remote.resp.statusText
              /\ remote.result.value = EmptyMap

\* a 404 whose body is a complete decision
C15_Witness ==
    /\ remote.pc = "settled"
    /\ remote.resp.status = 404
    /\ remote.resp.json.valid
    /\ remote.resp.json.value.resolvedFlags = <<ResolvedFlag1, ResolvedFlag2>>
    /\ remote.result = Rejected("Remote resolve failed: 404 Not Found")

(* C16  On a success status carrying the authority's decision, resolve      *)
(* returns that decision verbatim: as many resolved flags, in the same      *)
(* order (the empty list included), each with the same flag, variant, value *)
(* and reason, and the same resolveId.                                      *)
C16_DecisionVerbatim ==
    (remote.pc = "settled" /\ remote.transport = "responded"
       /\ Ok(remote.resp.status) /\ remote.resp.json.valid) =>
        LET sent == remote.resp.json.value
            got == remote.result.value
        IN  /\ remote.result.state = "fulfilled"
            /\ Len(got.resolvedFlags) = Len(sent.resolvedFlags)
            /\ \A i \in 1..Len(sent.resolvedFlags) :
                  /\ got.resolvedFlags[i].flag = sent.resolvedFlags[i].flag
                  /\ got.resolvedFlags[i].variant = sent.resolvedFlags[i].variant
                  /\ got.resolvedFlags[i].value = sent.resolvedFlags[i].value
                  /\ got.resolvedFlags[i].reason.member = sent.resolvedFlags[i].reason
            /\ got.resolveId = sent.resolveId

C16_Witness ==
    /\ remote.pc = "settled"
    /\ remote.resp.status = 200
    /\ remote.resp.json.valid
    /\ remote.resp.json.value.resolvedFlags = <<ResolvedFlag2, ResolvedFlag1>>
    /\ remote.result.state = "fulfilled"
    /\ remote.result.value.resolvedFlags[1].flag = "flag-2"
    /\ remote.result.value.resolveId = "resolve-456"

(* C17  Every resolve sends a POST to baseUrl + "/flags:resolve", baseUrl   *)
(* being the configured one, or "https://resolver.confidence.dev/v1" when   *)
(* none is configured; the body carries the request's flags, every          *)
(* attribute of its evaluationContext, its clientSecret and its apply       *)
(* value unchanged.                                                         *)
C17_PostToResolveEndpoint ==
    remote.pc \in {"awaiting", "settled"} =>
        /\ remote.sent.method = "POST"
        /\ remote.sent.url =
              (IF "baseUrl" \in DOMAIN remote.options
               THEN remote.options["baseUrl"]
               ELSE "https://resolver.confidence.dev/v1") \o "/flags:resolve"
        /\ LET body == JSON_parseRequest(remote.sent.body)
           IN  /\ body.flags = remote.request.flags
               /\ body.evaluationContext = remote.request.evaluationContext
               /\ body.clientSecret = remote.request.clientSecret
               /\ body.apply = remote.request.apply

C17_Witness ==
    /\ remote.pc = "awaiting"
    /\ remote.options = EmptyMap
    /\ remote.sent.url = "https://resolver.confidence.dev/v1/flags:resolve"
    /\ DOMAIN remote.request.evaluationContext = {"targetingKey", "country"}
    /\ ~remote.request.apply
    /\ remote.request.flags = << >>

----------------------------------------------------------------------------
(* The coordinator's requests *)

\* a request has been taken and answered or failed
RequestDone == coord.pc = "ready" /\ coord.flags # {}

(* C18  Fast path: when the first local attempt of a request signals no     *)
(* missing materialization, the coordinator returns that attempt's decision *)
(* and makes no loadAll, save or resolve call for the request.              *)
C18_FastPathNoIO ==
    (coord.pc \notin {"new", "failed"} /\ coord.flags # {}
       /\ DOMAIN coord.first = coord.flags /\ Missing(coord.first) = {}) =>
        /\ coord.pc = "ready"
        /\ coord.response = coord.first
        /\ coord.thrown = "none"
        /\ coord.calls = {}

\* a fast-path request served after one that did go to the store
C18_Witness ==
    /\ RequestDone
    /\ coord.flags = Flags
    /\ Missing(coord.first) = {}
    /\ coord.response = coord.first
    /\ coord.calls = {}
    /\ coord.everCalled = {"loadAll", "save"}

(* C19  Fallback exclusivity: over any sequence of requests a coordinator   *)
(* whose active strategy is the authority never calls loadAll or save, and  *)
(* one whose active strategy is a store never calls resolve.                *)
C19_FallbackExclusivity ==
    /\ coord.active = "authority" => coord.everCalled \subseteq {"resolve"}
    /\ coord.active = "store" => coord.everCalled \subseteq {"loadAll", "save"}

C19_Witness ==
    /\ RequestDone
    /\ coord.active = "authority"
    /\ Missing(coord.first) # {}
    /\ DOMAIN coord.response = coord.flags
    /\ coord.everCalled = {"resolve"}

\* the flags of the last request that an error hit
FailingFlags ==
    IF coord.raised = "AuthorityError" THEN Missing(coord.first) ELSE coord.failed

C21_PropagationByKind ==
    RequestDone =>
        /\ coord.raised = "StoreError" =>
              /\ coord.thrown = "none"
              /\ coord.failed # {}
              /\ DOMAIN coord.response = coord.flags
              /\ \A f \in coord.failed : coord.response[f] = "unresolved"
        /\ coord.raised \in {"AuthorityError", "ResolverError"} =>
              coord.thrown = coord.raised /\ coord.response = EmptyMap
        /\ coord.thrown \in {"none", "AuthorityError", "ResolverError"}

\* the local resolver fails on its second attempt, after loadAll
C21_Witness ==
    /\ RequestDone
    /\ coord.raised = "ResolverError"
    /\ coord.calls = {"loadAll"}
    /\ coord.thrown = "ResolverError"
    /\ coord.response = EmptyMap

\* the coordinator is inside a request, waiting for a call of its strategy
AwaitingStrategy == coord.pc \in {"missing", "loaded"}

----------------------------------------------------------------------------
(* Two storeAssignment calls in flight at once on one repository.  The body *)
(* of an async method runs without interruption up to its first await: the  *)
(* InMemory repository (and the file repository wrapping it) has none, so   *)
(* its storeAssignment is one step.  The repository that rewrites the file  *)
(* per call awaits fs.readFile and then fs.writeFile, and fs.writeFile      *)
(* first truncates the file and then writes the text; where two writeFile   *)
(* calls overlap, the text of the later write may land on the earlier one   *)
(* and leave a file that is not JSON.                                       *)

SaveCalls == {1, 2}
SaveUnits == {"u1", "u2"}

\* what the repository holds before the two calls
PrevData == [u \in {"u1"} |-> [id \in {"m1"} |-> InfoA]]

\* allData after the merge loop of storeAssignment
Disk_merge(allData, unit, assignments) ==
    MapSet(allData, unit,
           MapSetAll(IF unit \in DOMAIN allData THEN allData[unit] ELSE EmptyMap,
                     assignments))

InitSaves ==
    /\ adapter \in Adapters
    /\ pc = "running"
    /\ storage = IF adapter = "FileDirect" THEN EmptyMap ELSE PrevData
    /\ file = IF adapter = "FileDirect" THEN Disk_writeAllData(PrevData) ELSE NoFile
    /\ loadCount = 0
    /\ storeCount = 0
    /\ cacheHits = 0
    /\ cacheMisses = 0
    /\ call = Call("new")
    /\ atClose = EmptyMap
    /\ req \in [SaveCalls -> [pc : {"start"}, unit : SaveUnits,
                              assignments : Assignments \ {EmptyMap},
                              allData : {EmptyMap}]]
    /\ strategy = EmptyMap /\ guards = EmptyMap /\ remote = EmptyMap /\ coord = EmptyMap
    /\ heap = EmptyMap
    /\ reference = EmptyMap

\* storeAssignment(unit, assignments) up to its first await, if it has one
SaveCall(i) ==
    /\ req[i].pc = "start"
    /\ storeCount' = storeCount + 1
    /\ IF adapter = "FileDirect"
       THEN /\ req' = [req EXCEPT ![i].pc = "reading"]
            /\ UNCHANGED storage
       ELSE /\ req' = [req EXCEPT ![i].pc = "done"]
            /\ storage' = Mem_storeAssignment(storage, req[i].unit, req[i].assignments)
    /\ call' = StoreCall(req[i].unit, req[i].assignments)
    /\ UNCHANGED <<adapter, pc, loadCount, cacheHits, cacheMisses, file, atClose>>
    /\ UNCHANGED strategyVars
    /\ UNCHANGED <<heap, reference>>

\* await this.readAllData() returns; the merge loop runs on the object read
SaveRead(i) ==
    /\ req[i].pc = "reading"
    /\ req' = [req EXCEPT ![i].pc = "writing",
                          ![i].allData = Disk_merge(Disk_readAllData(file),
                                                    req[i].unit, req[i].assignments)]
    /\ UNCHANGED <<adapter, pc, storage, counters, file, call, atClose>>
    /\ UNCHANGED strategyVars
    /\ UNCHANGED <<heap, reference>>

\* fs.writeFile opens the file, which truncates it
SaveTruncate(i) ==
    /\ req[i].pc = "writing"
    /\ req' = [req EXCEPT ![i].pc = "truncated"]
    /\ file' = BadFile
    /\ UNCHANGED <<adapter, pc, storage, counters, call, atClose>>
    /\ UNCHANGED strategyVars
    /\ UNCHANGED <<heap, reference>>

\* fs.writeFile writes the text and storeAssignment returns; garbled is a
\* write landing on text another writeFile wrote since this one truncated
SaveWrite(i, garbled) ==
    /\ req[i].pc = "truncated"
    /\ garbled => file # BadFile
    /\ req' = [req EXCEPT ![i].pc = "done"]
    /\ file' = IF garbled THEN BadFile ELSE Disk_writeAllData(req[i].allData)
    /\ UNCHANGED <<adapter, pc, storage, counters, call, atClose>>
    /\ UNCHANGED strategyVars
    /\ UNCHANGED <<heap, reference>>

NextSaves ==
    \/ \E i \in SaveCalls : SaveCall(i)
    \/ \E i \in SaveCalls : SaveRead(i)
    \/ \E i \in SaveCalls : SaveTruncate(i)
    \/ \E i \in SaveCalls, garbled \in BOOLEAN : SaveWrite(i, garbled)

SpecSaves == InitSaves /\ [][NextSaves]_vars

\* both storeAssignment calls have returned
SavesDone == \A i \in SaveCalls : req[i].pc = "done"

(* C23 (as claimed)  Two saves for one unit that cover different            *)
(* materialization ids never lose each other's assignment: whatever the     *)
(* interleaving, once both have returned the store holds, under each id,    *)
(* the record the save for that id wrote.                                   *)
C23_DifferentIdsBothKept ==
    SavesDone =>
        \A i \in SaveCalls, j \in SaveCalls :
            (i # j /\ req[i].unit = req[j].unit
               /\ DOMAIN req[i].assignments \cap DOMAIN req[j].assignments = {}) =>
                \A id \in DOMAIN req[i].assignments :
                    /\ id \in DOMAIN UnitRecords(req[i].unit)
                    /\ UnitRecords(req[i].unit)[id] = req[i].assignments[id]

\* the records some storeAssignment call of this run wrote under (unit, id)
WrittenBy(unit, id) ==
    {req[i].assignments[id] :
        i \in {j \in SaveCalls : req[j].unit = unit /\ id \in DOMAIN req[j].assignments}}

(* C30 (as claimed)  In the repository that reads and rewrites the whole    *)
(* file on each storeAssignment, two concurrent calls, for the same or for  *)
(* different units, lose nothing: once both have returned the file holds a  *)
(* record under every (unit, id) either call wrote, and every record that   *)
(* was in the file before them, unless one of the calls wrote that id.      *)
C30_ConcurrentSavesKeepEverything ==
    (adapter = "FileDirect" /\ SavesDone) =>
        LET allData == Disk_readAllData(file)
        IN  /\ \A i \in SaveCalls : \A id \in DOMAIN req[i].assignments :
                  /\ req[i].unit \in DOMAIN allData
                  /\ id \in DOMAIN allData[req[i].unit]
                  /\ allData[req[i].unit][id] \in WrittenBy(req[i].unit, id)
            /\ \A unit \in DOMAIN PrevData : \A id \in DOMAIN PrevData[unit] :
                  /\ unit \in DOMAIN allData
                  /\ id \in DOMAIN allData[unit]
                  /\ WrittenBy(unit, id) = {} => allData[unit][id] = PrevData[unit][id]

\* the variant request i wrote for the rule it decided
WrittenVariant(i) ==
    req[i].records[req[i].materialization].ruleToVariant[req[i].rule]

(* C24  Two requests racing to decide different variants for the same rule  *)
(* of the same unit and materialization: the outcome is last-save-wins for  *)
(* that rule; once both have saved, the persisted variant is the one the    *)
(* save that executed last wrote, and it is one of the two decided.         *)
C24_LastSaveWins ==
    ((\A i \in Requests : req[i].pc = "done")
       /\ req[1].materialization = req[2].materialization
       /\ req[1].rule = req[2].rule
       /\ WrittenVariant(1) # WrittenVariant(2)) =>
        LET id == req[1].materialization
            rule == req[1].rule
            persisted == loadAll(ReqUnit, id)[id].ruleToVariant
        IN  /\ call.op = "store"
            /\ rule \in DOMAIN persisted
            /\ persisted[rule] = call.assignments[id].ruleToVariant[rule]
            /\ persisted[rule] \in {WrittenVariant(1), WrittenVariant(2)}

\* both requests loaded before either saved; request 2 saved last
C24_Witness ==
    /\ \A i \in Requests : req[i].pc = "done"
    /\ req[1].materialization = "m1" /\ req[2].materialization = "m1"
    /\ req[1].rule = "r2" /\ req[2].rule = "r2"
    /\ WrittenVariant(1) = "a"
    /\ WrittenVariant(2) = "b"
    /\ storage[ReqUnit]["m1"].ruleToVariant["r2"] = "b"

----------------------------------------------------------------------------
(* The InMemory repository and its caller as JS objects.  heap.objects maps *)
(* a reference to the object it denotes: a Map (its entries id -> reference *)
(* to a MaterializationInfo) or a MaterializationInfo.  heap.storage is     *)
(* this.storage (unit -> reference to the unit's Map); heap.held are the    *)
(* references the caller has: the Maps and records it built to pass to      *)
(* storeAssignment and the Maps loadMaterializedAssignmentsForUnit returned;*)
(* heap.returned are the latter.                                            *)

HeapUnits == {"u1"}

\* the rule entry a caller writes into a record it holds
MutRule == "r1"
MutVariant == "b"

MapObject(entries) == [kind |-> "Map", entries |-> entries]
InfoObject(info) ==
    [kind |-> "Info", unitInInfo |-> info.unitInInfo, ruleToVariant |-> info.ruleToVariant]

\* the reference the next allocation gets
NewRef(h) == Cardinality(DOMAIN h.objects) + 1

\* new: the heap with one more object
Allocate(h, obj) == [h EXCEPT !.objects = @ @@ (NewRef(h) :> obj)]

\* the value a MaterializationInfo object has
InfoValue(obj) == [unitInInfo |-> obj.unitInInfo, ruleToVariant |-> obj.ruleToVariant]

\* the value of a Map of records: id -> value of the record
MapValue(h, ref) ==
    [id \in DOMAIN h.objects[ref].entries |->
        InfoValue(h.objects[h.objects[ref].entries[id]])]

\* mutant: existingEntry.set(key, value) on the stored Map itself
Heap_storeAssignment_inPlace(h, unit, assignments) ==
    IF unit = "" THEN h
    ELSE IF unit \notin DOMAIN h.storage
    THEN [Allocate(h, MapObject(h.objects[assignments].entries))
             EXCEPT !.storage = MapSet(@, unit, NewRef(h))]
    ELSE [h EXCEPT !.objects[h.storage[unit]].entries =
                      MapSetAll(@, h.objects[assignments].entries)]

\* storeAssignment(unit, assignments): this.storage.set(unit, new Map(...))
Heap_storeAssignment(h, unit, assignments) ==
    IF unit = "" THEN h
    ELSE LET entries ==
                 IF unit \in DOMAIN h.storage
                 THEN MapSetAll(h.objects[h.storage[unit]].entries,
                                h.objects[assignments].entries)
                 ELSE h.objects[assignments].entries
         IN  [Allocate(h, MapObject(entries)) EXCEPT !.storage = MapSet(@, unit, NewRef(h))]

Heap_isHit(h, unit, materialization) ==
    /\ unit \in DOMAIN h.storage
    /\ materialization \in DOMAIN h.objects[h.storage[unit]].entries

\* loadMaterializedAssignmentsForUnit: the heap with the returned Map as its
\* newest object
Heap_loadMaterializedAssignmentsForUnit(h, unit, materialization) ==
    IF Heap_isHit(h, unit, materialization)
    THEN Allocate(h, MapObject([id \in {materialization} |->
                        h.objects[h.storage[unit]].entries[materialization]]))
    ELSE LET withInfo == Allocate(h, InfoObject(emptyInfo))
         IN  Allocate(withInfo, MapObject([id \in {materialization} |-> NewRef(h)]))

\* what loadMaterializedAssignmentsForUnit(unit, materialization) returns, by value
Heap_loadValue(h, unit, materialization) ==
    IF Heap_isHit(h, unit, materialization)
    THEN [id \in {materialization} |->
            InfoValue(h.objects[h.objects[h.storage[unit]].entries[materialization]])]
    ELSE createEmptyMap(materialization)

\* the Maps and the records the caller can reach
HeldMaps(h) == {r \in h.held : h.objects[r].kind = "Map"}
HeldInfos(h) ==
    {r \in h.held : h.objects[r].kind = "Info"}
      \cup UNION {{h.objects[m].entries[id] : id \in DOMAIN h.objects[m].entries}
                     : m \in HeldMaps(h)}

NewHeap ==
    [objects |-> << >>, storage |-> EmptyMap, held |-> {}, returned |-> {}, op |-> "new"]

InitHeap ==
    /\ adapter = "InMemory"
    /\ pc = "running"
    /\ storage = EmptyMap
    /\ loadCount = 0
    /\ storeCount = 0
    /\ cacheHits = 0
    /\ cacheMisses = 0
    /\ file = NoFile
    /\ call = Call("new")
    /\ atClose = EmptyMap
    /\ req = EmptyMap
    /\ strategy = EmptyMap /\ guards = EmptyMap /\ remote = EmptyMap /\ coord = EmptyMap
    /\ heap = NewHeap
    /\ reference = EmptyMap

\* the caller builds new Map([[materialization, {...info}]]) and awaits
\* storeAssignment(unit, that Map)
HeapStore(unit, materialization, info) ==
    /\ storeCount < MaxStores
    /\ storeCount' = storeCount + 1
    /\ LET withInfo == Allocate(heap, InfoObject(info))
           withMap == Allocate(withInfo,
                               MapObject([id \in {materialization} |-> NewRef(heap)]))
           assignments == NewRef(withInfo)
       IN  heap' = [Heap_storeAssignment(withMap, unit, assignments)
                       EXCEPT !.held = @ \cup {NewRef(heap), assignments},
                              !.op = "store"]
    /\ UNCHANGED <<adapter, pc, storage, loadCount, cacheHits, cacheMisses, file, call,
                   atClose, req>>
    /\ UNCHANGED strategyVars
    /\ UNCHANGED reference

\* the caller awaits loadMaterializedAssignmentsForUnit and keeps the Map
HeapLoad(unit, materialization) ==
    /\ loadCount < MaxLoads
    /\ loadCount' = loadCount + 1
    /\ IF Heap_isHit(heap, unit, materialization)
       THEN cacheHits' = cacheHits + 1 /\ UNCHANGED cacheMisses
       ELSE cacheMisses' = cacheMisses + 1 /\ UNCHANGED cacheHits
    /\ LET after == Heap_loadMaterializedAssignmentsForUnit(heap, unit, materialization)
       IN  heap' = [after EXCEPT !.held = @ \cup {Cardinality(DOMAIN after.objects)},
                                 !.returned = @ \cup {Cardinality(DOMAIN after.objects)},
                                 !.op = "load"]
    /\ UNCHANGED <<adapter, pc, storage, storeCount, file, call, atClose, req>>
    /\ UNCHANGED strategyVars
    /\ UNCHANGED reference

\* the caller writes a rule entry into a record it can reach
CallerMutatesRecord ==
    \E ref \in HeldInfos(heap) :
    /\ heap' = [heap EXCEPT
                  !.objects[ref].ruleToVariant = MapSet(@, MutRule, MutVariant),
                  !.op = "mutateRecord"]
    /\ UNCHANGED repoVars
    /\ UNCHANGED strategyVars
    /\ UNCHANGED reference

\* the caller deletes an entry of a Map it holds
CallerMutatesMap ==
    \E ref \in HeldMaps(heap) : \E id \in DOMAIN heap.objects[ref].entries :
    /\ heap' = [heap EXCEPT
                  !.objects[ref].entries = [k \in DOMAIN @ \ {id} |-> @[k]],
                  !.op = "mutateMap"]
    /\ UNCHANGED repoVars
    /\ UNCHANGED strategyVars
    /\ UNCHANGED reference

NextHeap ==
    \/ \E unit \in HeapUnits, materialization \in Mats :
          \E info \in InfosFor(materialization) : HeapStore(unit, materialization, info)
    \/ \E unit \in HeapUnits, materialization \in Mats : HeapLoad(unit, materialization)
    \/ CallerMutatesRecord
    \/ CallerMutatesMap

SpecHeap == InitHeap /\ [][NextHeap]_vars

\* the unit's stored set by value, {} when the unit has none
Heap_unitValue(h, unit) ==
    IF unit \in DOMAIN h.storage THEN MapValue(h, h.storage[unit]) ELSE EmptyMap

(* C25: a save of the in-process adapter is copy-on-write.  A store step    *)
(* leaves every object that existed before it as it was (the Map stored     *)
(* before included), installs for the unit a Map that did not exist before, *)
(* and that Map is the complete merge of the previous set with the saved    *)
(* entry; being one step, a load sees the set before it or the set after it.*)
C25_SaveIsCopyOnWrite ==
    [][(heap'.op = "store" /\ storeCount' = storeCount + 1) =>
          /\ \A r \in DOMAIN heap.objects : heap'.objects[r] = heap.objects[r]
          /\ \A unit \in DOMAIN heap'.storage :
                \/ /\ unit \in DOMAIN heap.storage
                   /\ heap'.storage[unit] = heap.storage[unit]
                \/ /\ heap'.storage[unit] \notin DOMAIN heap.objects
                   /\ \E id \in Mats : \E info \in InfosFor(id) :
                         Heap_unitValue(heap', unit) =
                            MapSet(Heap_unitValue(heap, unit), id, info)]_vars

\* a second save replaced the unit's Map: the Map stored before still exists,
\* is no longer the stored one, and differs from the stored one
C25_Witness ==
    /\ heap.op = "store"
    /\ storeCount = 2
    /\ \E unit \in DOMAIN heap.storage : \E r \in DOMAIN heap.objects :
          /\ heap.objects[r].kind = "Map"
          /\ r \notin heap.held
          /\ r # heap.storage[unit]
          /\ DOMAIN heap.objects[r].entries # DOMAIN heap.objects[heap.storage[unit]].entries

\* the records of the Maps that loads returned
ReturnedInfos(h) ==
    UNION {{h.objects[m].entries[id] : id \in DOMAIN h.objects[m].entries}
              : m \in h.returned}

(* C26: durable state changes only through save.  No step in which the      *)
(* caller mutates a Map it holds (returned by a load, or passed to a save   *)
(* that has returned) or a record of a Map that a load returned changes     *)
(* what a load of any unit and id returns.                                  *)
C26_CallerCannotChangeStore ==
    [][(\/ heap'.op = "mutateMap"
        \/ /\ heap'.op = "mutateRecord"
           /\ \E ref \in ReturnedInfos(heap) : heap'.objects[ref] # heap.objects[ref]) =>
          \A unit \in HeapUnits, id \in Mats :
             Heap_loadValue(heap', unit, id) = Heap_loadValue(heap, unit, id)]_vars

----------------------------------------------------------------------------
(* C27: in the file repository that wraps the in-memory one, the file is    *)
(* changed by close and by no other operation: every step of that adapter   *)
(* that is not a close leaves the file as it is, so at every moment, also   *)
(* when a new instance is constructed on the file without a close before,   *)
(* the file is the one the last close wrote (or the one found at the start  *)
(* when there has been no close).                                           *)
C27_FileChangedOnlyByClose ==
    /\ [][(adapter = "FileBacked" /\ call'.op # "close") => file' = file]_vars
    /\ [](adapter = "FileBacked" =>
             \/ file = Wrap_closeFile(atClose)
             \/ file \in {NoFile, BadFile} /\ atClose = EmptyMap)

\* a save after a close and a restart: memory holds more than the file, and
\* the file is still the one the close wrote
C27_Witness ==
    /\ adapter = "FileBacked"
    /\ call.op = "store"
    /\ call.unit # ""
    /\ file = Wrap_closeFile(atClose)
    /\ atClose # EmptyMap
    /\ storage # atClose

----------------------------------------------------------------------------
(* close() of the file repository that wraps the in-memory one, step by     *)
(* step, with storeAssignment calls that are not awaited before close is    *)
(* called, and the process stopping.  pc is the position of close():        *)
(* "running" before the call, "writing" at await fs.writeFile before the    *)
(* file is opened, "truncated" once the file is opened for writing,         *)
(* "written" once the text is in the file, "closed" when close returned;    *)
(* "crashed" when the process has stopped, "restarted" after initialize()   *)
(* of a new instance on the file left behind.                               *)

Closing == {"writing", "truncated", "written"}

InitClose ==
    /\ adapter = "FileBacked"
    /\ pc = "running"
    /\ storage = PrevData
    /\ file = Wrap_closeFile(PrevData)
    /\ loadCount = 0
    /\ storeCount = 0
    /\ cacheHits = 0
    /\ cacheMisses = 0
    /\ call = Call("new")
    /\ atClose = EmptyMap
    /\ req \in [SaveCalls -> [pc : {"start"}, unit : SaveUnits,
                              assignments : Assignments \ {EmptyMap},
                              allData : {EmptyMap}]]
    /\ strategy = EmptyMap /\ guards = EmptyMap /\ remote = EmptyMap /\ coord = EmptyMap
    /\ heap = EmptyMap
    /\ reference = EmptyMap

\* storeAssignment(unit, assignments): no await inside, runs to its return
ClosingSave(i) ==
    /\ pc \in {"running"} \cup Closing
    /\ req[i].pc = "start"
    /\ req' = [req EXCEPT ![i].pc = "done"]
    /\ storeCount' = storeCount + 1
    /\ storage' = Mem_storeAssignment(storage, req[i].unit, req[i].assignments)
    /\ call' = StoreCall(req[i].unit, req[i].assignments)
    /\ UNCHANGED <<adapter, pc, loadCount, cacheHits, cacheMisses, file, atClose>>
    /\ UNCHANGED strategyVars
    /\ UNCHANGED <<heap, reference>>

\* close() up to its await: exportData() and JSON.stringify of the data now
CloseCall ==
    /\ pc = "running"
    /\ pc' = "writing"
    /\ atClose' = storage
    /\ call' = Call("close")
    /\ UNCHANGED <<adapter, storage, counters, file, req>>
    /\ UNCHANGED strategyVars
    /\ UNCHANGED <<heap, reference>>

\* fs.writeFile opens the file, which truncates it
CloseTruncate ==
    /\ pc = "writing"
    /\ pc' = "truncated"
    /\ file' = BadFile
    /\ UNCHANGED <<adapter, storage, counters, call, atClose, req>>
    /\ UNCHANGED strategyVars
    /\ UNCHANGED <<heap, reference>>

\* fs.writeFile writes the text
CloseWrite ==
    /\ pc = "truncated"
    /\ pc' = "written"
    /\ file' = Wrap_closeFile(atClose)
    /\ UNCHANGED <<adapter, storage, counters, call, atClose, req>>
    /\ UNCHANGED strategyVars
    /\ UNCHANGED <<heap, reference>>

\* the await returns; this.memoryRepo.close(); close() returns
CloseReturn ==
    /\ pc = "written"
    /\ pc' = "closed"
    /\ storage' = Mem_close(storage)
    /\ UNCHANGED <<adapter, counters, file, call, atClose, req>>
    /\ UNCHANGED strategyVars
    /\ UNCHANGED <<heap, reference>>

\* the process stops: its memory is gone, the file stays as it is
Crash ==
    /\ pc \in {"running"} \cup Closing
    /\ pc' = "crashed"
    /\ storage' = EmptyMap
    /\ UNCHANGED <<adapter, counters, file, call, atClose, req>>
    /\ UNCHANGED strategyVars
    /\ UNCHANGED <<heap, reference>>

\* new FileBackedMaterializationRepo(path) and initialize() on the file
Restart ==
    /\ pc = "crashed"
    /\ pc' = "restarted"
    /\ storage' = Wrap_initialize(EmptyMap, file)
    /\ storeCount' = Wrap_initializeStores(file)
    /\ loadCount' = 0
    /\ cacheHits' = 0
    /\ cacheMisses' = 0
    /\ call' = Call("initialize")
    /\ UNCHANGED <<adapter, file, atClose, req>>
    /\ UNCHANGED strategyVars
    /\ UNCHANGED <<heap, reference>>

NextClose ==
    \/ \E i \in SaveCalls : ClosingSave(i)
    \/ CloseCall
    \/ CloseTruncate
    \/ CloseWrite
    \/ CloseReturn
    \/ Crash
    \/ Restart

SpecClose == InitClose /\ [][NextClose]_vars

\* data holds every record of the set prev
Holds(data, prev) ==
    \A unit \in DOMAIN prev : \A id \in DOMAIN prev[unit] :
        /\ unit \in DOMAIN data
        /\ id \in DOMAIN data[unit]

(* C28 (as claimed)  close overwrites the file atomically: when the process *)
(* has stopped, at whatever point of close, the file is the complete        *)
(* previously persisted one or the complete one close was writing, and an   *)
(* initialize after it starts with at least every previously persisted      *)
(* record.                                                                  *)
C28_CloseIsAtomic ==
    /\ pc = "crashed" => file \in {Wrap_closeFile(PrevData), Wrap_closeFile(atClose)}
    /\ pc = "restarted" => Holds(storage, PrevData)

(* C29 (as claimed)  close serializes the complete state: once close has    *)
(* returned, the file holds, under every (unit, id) that a storeAssignment  *)
(* which returned before it wrote, a record some such call wrote.           *)
C29_CloseWritesEverySave ==
    pc = "closed" =>
        LET allData == Disk_readAllData(file)
        IN  \A i \in SaveCalls : req[i].pc = "done" =>
                \A id \in DOMAIN req[i].assignments :
                    /\ req[i].unit \in DOMAIN allData
                    /\ id \in DOMAIN allData[req[i].unit]
                    /\ allData[req[i].unit][id] \in
                          {req[j].assignments[id] :
                              j \in {k \in SaveCalls :
                                       /\ req[k].pc = "done"
                                       /\ req[k].unit = req[i].unit
                                       /\ id \in DOMAIN req[k].assignments}}

----------------------------------------------------------------------------
(* The file repository that wraps the in-memory one, between initialize and *)
(* close, side by side with an InMemoryMaterializationRepo that holds the   *)
(* file's contents: the client makes every call on both.  storage, the      *)
(* counters and call belong to the wrapping repository; reference.storage   *)
(* and reference.ret are the in-memory repository's storage and the value   *)
(* its last call returned.                                                  *)

\* the data a previous close() wrote
EquivData ==
    {EmptyMap, PrevData,
     [u \in {"u1", "u2"} |->
        IF u = "u1" THEN [id \in Mats |-> InfoB] ELSE [id \in {"m1"} |-> InfoA]]}

EquivFiles == {NoFile, BadFile} \cup {Wrap_closeFile(data) : data \in EquivData}

\* storage of an in-memory repository that holds the records of data
Preloaded(data) == [unit \in DOMAIN data \ {""} |-> data[unit]]

InitEquiv ==
    /\ adapter = "FileBacked"
    /\ pc = "constructed"
    /\ storage = EmptyMap
    /\ file \in EquivFiles
    /\ loadCount = 0
    /\ storeCount = 0
    /\ cacheHits = 0
    /\ cacheMisses = 0
    /\ call = Call("new")
    /\ atClose = EmptyMap
    /\ req = EmptyMap
    /\ strategy = EmptyMap /\ guards = EmptyMap /\ remote = EmptyMap /\ coord = EmptyMap
    /\ heap = EmptyMap
    /\ reference = EmptyMap

\* await repo.initialize(); the in-memory repository is given the file's contents
EquivInitialize ==
    /\ pc = "constructed"
    /\ pc' = IF adapter = "FileBacked" /\ Wrap_initializeThrows(file) # "none"
             THEN "failed"
             ELSE "running"
    /\ storage' = Wrap_initialize(storage, file)
    /\ storeCount' = storeCount + Wrap_initializeStores(file)
    /\ reference' = [storage |-> Preloaded(Disk_readAllData(file)), ret |-> EmptyMap]
    /\ call' = Call("initialize")
    /\ UNCHANGED <<adapter, loadCount, cacheHits, cacheMisses, file, atClose, req>>
    /\ UNCHANGED strategyVars
    /\ UNCHANGED heap

\* loadMaterializedAssignmentsForUnit(unit, materialization) on both
EquivLoad(unit, materialization) ==
    /\ pc = "running"
    /\ loadCount < MaxLoads
    /\ loadCount' = loadCount + 1
    /\ IF Mem_isHit(storage, unit, materialization)
       THEN cacheHits' = cacheHits + 1 /\ UNCHANGED cacheMisses
       ELSE cacheMisses' = cacheMisses + 1 /\ UNCHANGED cacheHits
    /\ call' = LoadCall(unit, materialization,
                        Mem_loadMaterializedAssignmentsForUnit(storage, unit, materialization))
    /\ reference' = [reference EXCEPT
                       !.ret = Mem_loadMaterializedAssignmentsForUnit(
                                   reference.storage, unit, materialization)]
    /\ UNCHANGED <<adapter, pc, storage, storeCount, file, atClose, req>>
    /\ UNCHANGED strategyVars
    /\ UNCHANGED heap

\* storeAssignment(unit, assignments) on both
EquivStore(unit, assignments) ==
    /\ pc = "running"
    /\ storeCount < MaxStores + Wrap_initializeStores(file)
    /\ storeCount' = storeCount + 1
    /\ storage' = Mem_storeAssignment(storage, unit, assignments)
    /\ call' = StoreCall(unit, assignments)
    /\ reference' = [reference EXCEPT
                       !.storage = Mem_storeAssignment(@, unit, assignments),
                       !.ret = EmptyMap]
    /\ UNCHANGED <<adapter, pc, loadCount, cacheHits, cacheMisses, file, atClose, req>>
    /\ UNCHANGED strategyVars
    /\ UNCHANGED heap

NextEquiv ==
    \/ EquivInitialize
    \/ \E unit \in Units, materialization \in Mats : EquivLoad(unit, materialization)
    \/ \E unit \in Units, assignments \in Assignments : EquivStore(unit, assignments)

SpecEquiv == InitEquiv /\ [][NextEquiv]_vars

(* C31: between initialize and close the wrapping file repository and an    *)
(* in-memory repository holding the file's contents cannot be told apart:   *)
(* after every sequence of loads and saves made on both, the last call      *)
(* returned the same value from both, and every load that could be made     *)
(* next returns the same value from both.                                   *)
C31_WrapEquivalentToPreloadedMemory ==
    pc = "running" =>
        /\ call.ret = reference.ret
        /\ \A unit \in Units, materialization \in Mats :
              Mem_loadMaterializedAssignmentsForUnit(storage, unit, materialization)
                = Mem_loadMaterializedAssignmentsForUnit(reference.storage, unit,
                                                         materialization)

\* a load that hits a record of the file, after a save
C31_Witness ==
    /\ pc = "running"
    /\ file.state = "json"
    /\ storeCount > Wrap_initializeStores(file)
    /\ call.op = "load"
    /\ cacheHits = 1
    /\ call.unit \in DOMAIN Disk_readAllData(file)
    /\ call.ret = reference.ret

----------------------------------------------------------------------------
\* what loadMaterializedAssignmentsForUnit returns on storage st and file f
LoadOn(st, f, unit, materialization) ==
    IF adapter = "FileDirect"
    THEN Disk_loadMaterializedAssignmentsForUnit(f, unit, materialization)
    ELSE Mem_loadMaterializedAssignmentsForUnit(st, unit, materialization)

(* C32: initialize of a file repository never fails.  When the file is      *)
(* missing, unreadable or not valid JSON, initialize completes without      *)
(* throwing, the wrapping repository starts with empty storage, and every   *)
(* load that follows it returns the default record.                         *)
C32_InitializeNeverFails ==
    [][(call'.op = "initialize" /\ pc = "constructed" /\ file \in {NoFile, BadFile}) =>
          /\ pc' = "running"
          /\ adapter = "FileBacked" => storage' = EmptyMap
          /\ \A unit \in Units, materialization \in Mats :
                LoadOn(storage', file', unit, materialization)
                   = createEmptyMap(materialization)]_vars

\* a load made after initialize on a file that is not JSON
C32_Witness ==
    /\ adapter = "FileBacked"
    /\ file = BadFile
    /\ pc = "running"
    /\ storeCount = 0
    /\ call.op = "load"
    /\ call.unit # ""
    /\ call.ret = createEmptyMap(call.materialization)

----------------------------------------------------------------------------
\* the records of unit before the storeAssignment calls of SpecSaves
PrevRecords(unit) == IF unit \in DOMAIN PrevData THEN PrevData[unit] ELSE EmptyMap

(* C33 (as claimed)  A save for a unit leaves the stored records of every   *)
(* other unit unchanged, in all three repositories: once the calls have     *)
(* returned, a unit that no call saved holds the records it held before,    *)
(* and a unit that one call saved holds those records merged with that      *)
(* call's assignments, whatever the other call saved for another unit.      *)
C33_SaveLeavesOtherUnits ==
    SavesDone =>
        \A unit \in SaveUnits :
            LET savers == {i \in SaveCalls : req[i].unit = unit}
            IN  /\ savers = {} => UnitRecords(unit) = PrevRecords(unit)
                /\ \A i \in savers :
                      savers = {i} =>
                         UnitRecords(unit) = MapSetAll(PrevRecords(unit), req[i].assignments)

----------------------------------------------------------------------------
(* C34: a load is read-only.  A loadMaterializedAssignmentsForUnit call,    *)
(* hit or miss, leaves the stored records, the set of known units and ids,  *)
(* the file and the store counter as they were; only the load, hit and miss *)
(* counters (and the value returned) change.                                *)
C34_LoadIsReadOnly ==
    [][(call'.op = "load" /\ loadCount' = loadCount + 1) =>
          /\ storage' = storage
          /\ file' = file
          /\ Stored' = Stored
          /\ storeCount' = storeCount]_vars

\* a miss for a unit the store does not know, while it holds other records
C34_Witness ==
    /\ call.op = "load"
    /\ call.unit \notin DOMAIN Stored
    /\ call.unit # ""
    /\ cacheMisses = 1
    /\ Stored # EmptyMap
    /\ call.ret = createEmptyMap(call.materialization)

----------------------------------------------------------------------------
(* C35: save is idempotent.  A storeAssignment call that repeats the call   *)
(* made just before it, with the same unit and the same assignments, leaves *)
(* the stored records as the first call left them, in every repository and  *)
(* from every state.                                                        *)
C35_SaveIdempotent ==
    [][(/\ call.op = "store"
        /\ call'.op = "store"
        /\ storeCount' = storeCount + 1
        /\ call'.unit = call.unit
        /\ call'.assignments = call.assignments) => Stored' = Stored]_vars

\* a second save of two records for a unit, both stored
C35_Witness ==
    /\ call.op = "store"
    /\ storeCount = 2
    /\ loadCount = 0
    /\ call.unit # ""
    /\ DOMAIN call.assignments = Mats
    /\ DOMAIN Stored = {call.unit}
    /\ Stored[call.unit] = call.assignments

----------------------------------------------------------------------------
----------------------------------------------------------------------------
(* C36: RemoteResolverFallback.resolve makes exactly one outbound call per  *)
(* invocation, also when that call fails, and keeps nothing from one        *)
(* invocation to the next: while an invocation waits and when it has        *)
(* settled, one fetch call has been made, for this invocation's request,    *)
(* and the outcome is the one the authority's answer to that call gives,    *)
(* however the invocation before it ended.                                  *)
C36_OneCallNoState ==
    /\ remote.pc = "idle" => remote.fetches = 0
    /\ remote.pc \in {"awaiting", "settled"} =>
          /\ remote.fetches = 1
          /\ remote.sent = FetchCall(remote.baseUrl, remote.request)
    /\ remote.pc = "settled" =>
          remote.result = IF remote.transport = "responded"
                          THEN Remote_onResponse(remote.resp)
                          ELSE Rejected(remote.transport)

\* an invocation that succeeded right after one that failed, with one fetch call
C36_Witness ==
    /\ remote.pc = "settled"
    /\ remote.previous = "rejected"
    /\ remote.result.state = "fulfilled"
    /\ remote.fetches = 1

====
